---- MODULE Spec2Model ----
(***************************************************************************)
(* Model of the chunk-formation engine of bible-kg                         *)
(* (src/src/bible_kg/chunker.py): BibleChunker.__init__, the grouper, the  *)
(* passage segmenter, the sliding-window splitter, the chunk constructor   *)
(* and the orchestrator create_chunks.                                     *)
(*                                                                         *)
(* Python values are modelled as follows.                                  *)
(*   - a verse dict is a record; its field id stands for the identity of   *)
(*     the Python object (two dicts with equal fields are still two        *)
(*     objects), and is never read by the operators that model the code;   *)
(*   - Optional values (current_book, current_chapter) are <<>> for None   *)
(*     and <<x>> for a value x;                                            *)
(*   - overlap_percentage is the exact rational num/den, written <<num,    *)
(*     den>> with den > 0; the values used are dyadic, so that the float   *)
(*     arithmetic of the code is exact on them;                            *)
(*   - a raised exception is the name of its class in the variable raised. *)
(***************************************************************************)
EXTENDS Integers, Sequences, FiniteSets, TLC

(***************************************************************************)
(* Bounds of the model.                                                    *)
(***************************************************************************)
MaxLen == 3          \* longest input drawn over the book/chapter/verse grid
MaxTextLen == 2      \* longest input drawn over the verse texts
MaxRun == 8          \* longest single-chapter run of consecutive verses
ExampleRun == 20     \* the run chunked with the default configuration
MaxWindow == 3       \* window_size ranges over -1..MaxWindow
MaxPassageSize == 2  \* max_passage_size ranges over 0..MaxPassageSize
MaxShuffle == 5      \* longest list given to a method in every order
MaxCalls == 2        \* most calls of create_chunks on one engine
MaxChunks == 2       \* most chunks given to generate_contexts
MaxBatch == 2        \* batch_size ranges over 1..MaxBatch
MaxRetries == 3      \* max_retries ranges over 0..MaxRetries

(***************************************************************************)
(* Program constants.                                                      *)
(***************************************************************************)
DefaultWindowSize == 7
DefaultMaxPassageSize == 15
DefaultOverlap == <<1, 2>>
SampleWindowSize == 3
SampleMaxPassageSize == 5
SampleOverlap == <<1, 2>>
MinChunkVerses == 2
DefaultBatchSize == 5
DefaultMaxRetries == 3
DefaultRetryDelay == 5
BatchPause == 1

(***************************************************************************)
(* Generic helpers: Python's int(), max(), min(), slicing and range().     *)
(***************************************************************************)
\* F(x) with x evaluated once, as Python evaluates an assignment once.
Eager(x, F(_)) == CHOOSE y \in {F(v) : v \in {x}} : TRUE

Max(a, b) == IF a >= b THEN a ELSE b

Min(a, b) == IF a <= b THEN a ELSE b

\* int(a / b) for b > 0: truncation toward zero.
IntTrunc(a, b) == IF a >= 0 THEN a \div b ELSE -((-a) \div b)

\* Python's s[lo:hi] on a sequence (0-based, negative indices count from
\* the end, out-of-range indices are clamped).
PySliceIndex(n, k) == IF k < 0 THEN Max(n + k, 0) ELSE Min(k, n)

PySlice(s, lo, hi) ==
    SubSeq(s, PySliceIndex(Len(s), lo) + 1, PySliceIndex(Len(s), hi))

\* The iterator of range(0, n, step), step /= 0, yields a value after i.
HasNextThrough(i, n, step) == step > 0 /\ i <= n

HasNext(i, n, step) == step > 0 /\ i < n

\* list(range(0, n, step)) for step /= 0, as an ascending sequence.
RECURSIVE RangeFrom(_, _, _)
RangeFrom(i, n, step) ==
    IF step > 0 /\ i < n THEN <<i>> \o RangeFrom(i + step, n, step) ELSE <<>>

PyRange(n, step) == RangeFrom(0, n, step)

(***************************************************************************)
(* Strings.  Python compares str values by code point; CodeOrder lists the *)
(* characters a book name can hold (parser.py:39) in code-point order.     *)
(***************************************************************************)
CodeOrder == " 0123456789ABCDEFGHIJKLMNOPQRSTUVWXYZabcdefghijklmnopqrstuvwxyz"

Char(s, i) == SubSeq(s, i, i)

\* The rank of each character of CodeOrder: ord(c) up to a monotone map.
OrdMap ==
    [c \in {Char(CodeOrder, i) : i \in 1..Len(CodeOrder)} |->
        CHOOSE i \in 1..Len(CodeOrder) : Char(CodeOrder, i) = c]

Ord(c) == OrdMap[c]

\* a < b for Python str values.
RECURSIVE StrLessFrom(_, _, _)
StrLessFrom(a, b, i) ==
    IF i > Len(b) THEN FALSE
    ELSE IF i > Len(a) THEN TRUE
    ELSE IF Char(a, i) = Char(b, i) THEN StrLessFrom(a, b, i + 1)
    ELSE Ord(Char(a, i)) < Ord(Char(b, i))

StrLess(a, b) == StrLessFrom(a, b, 1)

\* text.startswith(phrase)
StartsWith(text, phrase) ==
    /\ Len(text) >= Len(phrase)
    /\ SubSeq(text, 1, Len(phrase)) = phrase

(***************************************************************************)
(* Verse records, as parser.py builds them.                                *)
(***************************************************************************)
VerseReference(book, chapter, verse) ==
    book \o " " \o ToString(chapter) \o ":" \o ToString(verse)

Verse(id, book, chapter, verse, text) ==
    [id |-> id, book |-> book, chapter |-> chapter, verse |-> verse,
     text |-> text, reference |-> VerseReference(book, chapter, verse)]

(***************************************************************************)
(* Sorting.  list.sort and sorted are stable: records with equal keys keep *)
(* their relative order.  The key is v['verse'] in the grouper and the     *)
(* tuple (v['book'], v['chapter'], v['verse']) in the chunk constructor.   *)
(***************************************************************************)
\* The comparison is not strict: equal keys are exchanged.
VerseKeyLessOrEqual(a, b) == a.verse <= b.verse

VerseKeyLess(a, b) == a.verse < b.verse

TupleKeyLess(a, b) ==
    IF a.book /= b.book THEN StrLess(a.book, b.book)
    ELSE IF a.chapter /= b.chapter THEN a.chapter < b.chapter
    ELSE a.verse < b.verse

KeyLess(key, a, b) ==
    IF key = "verse" THEN VerseKeyLess(a, b) ELSE TupleKeyLess(a, b)

\* Walks left from position i past the records that sort after v.
RECURSIVE InsertPointFrom(_, _, _, _)
InsertPointFrom(key, s, v, i) ==
    IF i = 0 THEN 0
    ELSE IF KeyLess(key, v, s[i]) THEN InsertPointFrom(key, s, v, i - 1)
    ELSE i

InsertPoint(key, s, v) == InsertPointFrom(key, s, v, Len(s))

StableInsert(key, s, v) ==
    Eager(InsertPoint(key, s, v),
          LAMBDA p : SubSeq(s, 1, p) \o <<v>> \o SubSeq(s, p + 1, Len(s)))

RECURSIVE SortFrom(_, _, _, _)
SortFrom(key, s, i, acc) ==
    IF i > Len(s) THEN acc
    ELSE Eager(StableInsert(key, acc, s[i]),
               LAMBDA a : SortFrom(key, s, i + 1, a))

StableSort(key, s) == SortFrom(key, s, 1, <<>>)

\* Books in descending order: sorted(..., reverse=True).
RECURSIVE SortedBooksDescending(_)
SortedBooksDescending(books) ==
    IF books = {} THEN <<>>
    ELSE LET b == CHOOSE x \in books :
                      \A y \in books \ {x} : StrLess(y, x)
         IN  <<b>> \o SortedBooksDescending(books \ {b})

\* sorted(d.keys()) for a dict keyed by book names, and by chapter numbers.
RECURSIVE SortedBooks(_)
SortedBooks(books) ==
    IF books = {} THEN <<>>
    ELSE LET b == CHOOSE x \in books :
                      \A y \in books \ {x} : StrLess(x, y)
         IN  <<b>> \o SortedBooks(books \ {b})

RECURSIVE SortedChapters(_)
SortedChapters(chapters) ==
    IF chapters = {} THEN <<>>
    ELSE LET c == CHOOSE x \in chapters : \A y \in chapters : x <= y
         IN  <<c>> \o SortedChapters(chapters \ {c})

(***************************************************************************)
(* BibleChunker._group_verses_by_book_chapter.  A dict is a function on    *)
(* the set of its keys.                                                    *)
(***************************************************************************)
EmptyDict == [k \in {} |-> <<>>]

\* if book not in grouped: grouped[book] = {}
AddBook(grouped, book) ==
    IF book \in DOMAIN grouped THEN grouped
    ELSE grouped @@ (book :> EmptyDict)

\* if chapter not in grouped[book]: grouped[book][chapter] = []
AddChapter(grouped, book, chapter) ==
    IF chapter \in DOMAIN grouped[book] THEN grouped
    ELSE [grouped EXCEPT ![book] = @ @@ (chapter :> <<>>)]

GroupAppend(grouped, verse) ==
    Eager(AddBook(grouped, verse.book), LAMBDA g1 :
    Eager(AddChapter(g1, verse.book, verse.chapter), LAMBDA g2 :
        [g2 EXCEPT ![verse.book][verse.chapter] = Append(@, verse)]))

RECURSIVE GroupFrom(_, _, _)
GroupFrom(vs, i, grouped) ==
    IF i > Len(vs) THEN grouped
    ELSE Eager(GroupAppend(grouped, vs[i]),
               LAMBDA g : GroupFrom(vs, i + 1, g))

\* The lists of the chapters left in the order of insertion.
SortChaptersSkipped(grouped) == grouped

\* for book in grouped: for chapter in grouped[book]: .sort(key=verse)
SortChapters(grouped) ==
    [book \in DOMAIN grouped |->
        [chapter \in DOMAIN grouped[book] |->
            StableSort("verse", grouped[book][chapter])]]

_group_verses_by_book_chapter(vs) == SortChapters(GroupFrom(vs, 1, EmptyDict))

(***************************************************************************)
(* BibleChunker._create_chunk_from_verses.                                 *)
(***************************************************************************)
UpperChars == "ABCDEFGHIJKLMNOPQRSTUVWXYZ"

LowerChars == "abcdefghijklmnopqrstuvwxyz"

LowerMap ==
    [c \in {Char(UpperChars, i) : i \in 1..Len(UpperChars)} |->
        Char(LowerChars, CHOOSE i \in 1..Len(UpperChars) :
                             Char(UpperChars, i) = c)]

LowerChar(c) == IF c \in DOMAIN LowerMap THEN LowerMap[c] ELSE c

\* " ".join(texts)
RECURSIVE JoinFrom(_, _)
JoinFrom(texts, i) ==
    IF i > Len(texts) THEN ""
    ELSE IF i = Len(texts) THEN texts[i]
    ELSE texts[i] \o " " \o JoinFrom(texts, i + 1)

Join(texts) == JoinFrom(texts, 1)

\* The chapter of the last verse is written also when it is the chapter of
\* the first.
ChunkReferenceWithChapters(first_verse, last_verse) ==
    IF first_verse.book = last_verse.book
    THEN first_verse.book \o " " \o ToString(first_verse.chapter) \o ":"
         \o ToString(first_verse.verse) \o "-"
         \o ToString(last_verse.chapter) \o ":"
         \o ToString(last_verse.verse)
    ELSE first_verse.reference \o "-" \o last_verse.reference

\* The reference names the book and the chapter of the first verse only.
ChunkReferenceOfChapter(first_verse, last_verse) ==
    first_verse.book \o " " \o ToString(first_verse.chapter)

ChunkReference(first_verse, last_verse) ==
    IF first_verse.book = last_verse.book
    THEN IF first_verse.chapter = last_verse.chapter
         THEN first_verse.book \o " " \o ToString(first_verse.chapter) \o ":"
              \o ToString(first_verse.verse) \o "-"
              \o ToString(last_verse.verse)
         ELSE first_verse.book \o " " \o ToString(first_verse.chapter) \o ":"
              \o ToString(first_verse.verse) \o "-"
              \o ToString(last_verse.chapter) \o ":"
              \o ToString(last_verse.verse)
    ELSE first_verse.reference \o "-" \o last_verse.reference

\* reference.lower().replace(" ", "_").replace(":", "_").replace("-", "_")
\* str.lower and the three replacements act on each character alone, so the
\* chain is applied character by character.
ReplaceChar(c, old, new) == IF c = old THEN new ELSE c

ChunkIdChar(c) ==
    ReplaceChar(ReplaceChar(ReplaceChar(LowerChar(c), " ", "_"), ":", "_"),
                "-", "_")

RECURSIVE ChunkIdFrom(_, _)
ChunkIdFrom(reference, i) ==
    IF i > Len(reference) THEN ""
    ELSE ChunkIdChar(Char(reference, i)) \o ChunkIdFrom(reference, i + 1)

ChunkId(reference) == ChunkIdFrom(reference, 1)

ValueError == [exception |-> "ValueError"]

IsException(x) == "exception" \in DOMAIN x

\* The chunk of an already sorted, non-empty list of verses.
ChunkOf(sorted_verses) ==
    LET first_verse == sorted_verses[1]
        last_verse == sorted_verses[Len(sorted_verses)]
    IN  Eager(ChunkReference(first_verse, last_verse), LAMBDA reference :
            [chunk_id |-> ChunkId(reference),
             verses |-> sorted_verses,
             reference |-> reference,
             text |-> Join([i \in 1..Len(sorted_verses) |->
                               sorted_verses[i].text]),
             metadata |-> [book |-> first_verse.book,
                           start_chapter |-> first_verse.chapter,
                           start_verse |-> first_verse.verse,
                           end_chapter |-> last_verse.chapter,
                           end_verse |-> last_verse.verse,
                           verse_count |-> Len(sorted_verses)]])

\* The chunk is built from the verses as they are given, without sorting.
CreateChunkUnsorted(vs) == IF vs = <<>> THEN ValueError ELSE ChunkOf(vs)

_create_chunk_from_verses(vs) ==
    IF vs = <<>> THEN ValueError
    ELSE Eager(StableSort("tuple", vs), LAMBDA sorted_verses :
             ChunkOf(sorted_verses))

(***************************************************************************)
(* BibleChunker._is_passage_boundary.                                      *)
(***************************************************************************)
boundary_phrases ==
    << "And it came to pass",
       "Now it came to pass",
       "After these things",
       "Then",
       "Behold",
       "Verily, verily",
       "Thus saith the Lord" >>

\* The loop over boundary_phrases: True at the first phrase that matches.
RECURSIVE MatchesPhraseFrom(_, _)
MatchesPhraseFrom(text, i) ==
    IF i > Len(boundary_phrases) THEN FALSE
    ELSE IF StartsWith(text, boundary_phrases[i]) THEN TRUE
    ELSE MatchesPhraseFrom(text, i + 1)

\* The boundary test without the verse-1 rule.
BoundaryWithoutVerseOne(verse, current_book, current_chapter, current_passage) ==
    IF current_book /= <<>> /\ verse.book /= current_book[1] THEN TRUE
    ELSE IF current_chapter /= <<>> /\ verse.chapter /= current_chapter[1]
         THEN TRUE
    ELSE IF current_passage = <<>> THEN FALSE
    ELSE MatchesPhraseFrom(verse.text, 1)

_is_passage_boundary(verse, current_book, current_chapter, current_passage) ==
    IF current_book /= <<>> /\ verse.book /= current_book[1] THEN TRUE
    ELSE IF current_chapter /= <<>> /\ verse.chapter /= current_chapter[1]
         THEN TRUE
    ELSE IF current_passage = <<>> THEN FALSE
    ELSE IF verse.verse = 1 THEN TRUE
    ELSE MatchesPhraseFrom(verse.text, 1)

(***************************************************************************)
(* BibleChunker._create_passage_chunks.  The locals of the method are the  *)
(* fields of the scan state st; an exception stops the scan.               *)
(***************************************************************************)
ScanStart ==
    [passage_chunks |-> <<>>, current_passage |-> <<>>,
     current_book |-> <<>>, current_chapter |-> <<>>, raised |-> "none"]

\* The passage is appended and the buffer is not cleared.
EmitPassageKeepBuffer(st) ==
    Eager(_create_chunk_from_verses(st.current_passage), LAMBDA chunk :
        IF IsException(chunk) THEN [st EXCEPT !.raised = chunk.exception]
        ELSE [st EXCEPT !.passage_chunks = Append(@, chunk)])

\* chunk = self._create_chunk_from_verses(current_passage);
\* passage_chunks.append(chunk); current_passage = []
EmitPassage(st) ==
    Eager(_create_chunk_from_verses(st.current_passage), LAMBDA chunk :
        IF IsException(chunk) THEN [st EXCEPT !.raised = chunk.exception]
        ELSE [st EXCEPT !.passage_chunks = Append(@, chunk),
                        !.current_passage = <<>>])

\* The passage is completed without the test of the buffer.
CompletePassageUnguarded(st) == EmitPassage(st)

\* if current_passage: ...
CompletePassage(st) ==
    IF st.current_passage /= <<>> THEN EmitPassage(st) ELSE st

\* The body of the loop over the verses of one chapter.
ScanVerse(st, verse) ==
    IF st.raised /= "none" THEN st
    ELSE Eager(IF _is_passage_boundary(verse, st.current_book,
                                       st.current_chapter,
                                       st.current_passage)
               THEN CompletePassage(st)
               ELSE st,
               LAMBDA s1 :
                   IF s1.raised /= "none" THEN s1
                   ELSE [s1 EXCEPT !.current_passage = Append(@, verse),
                                   !.current_book = <<verse.book>>,
                                   !.current_chapter = <<verse.chapter>>])

RECURSIVE ScanVersesFrom(_, _, _)
ScanVersesFrom(st, vs, i) ==
    IF i > Len(vs) THEN st
    ELSE Eager(ScanVerse(st, vs[i]),
               LAMBDA s1 : ScanVersesFrom(s1, vs, i + 1))

\* The verses of the chapter are added to the buffer as they are; the
\* passage is completed at the end of the input only.
ScanChapterExtend(st, vs) ==
    IF vs = <<>> THEN st
    ELSE [st EXCEPT !.current_passage = @ \o vs,
                    !.current_book = <<vs[1].book>>,
                    !.current_chapter = <<vs[1].chapter>>]

\* One chapter: scan its verses, then complete the passage.
ScanChapter(st, vs) ==
    Eager(ScanVersesFrom(st, vs, 1),
          LAMBDA s1 : IF s1.raised /= "none" THEN s1 ELSE CompletePassage(s1))

RECURSIVE ScanChaptersFrom(_, _, _, _)
ScanChaptersFrom(st, by_chapter, chapters, i) ==
    IF i > Len(chapters) THEN st
    ELSE Eager(ScanChapter(st, by_chapter[chapters[i]]),
               LAMBDA s1 : ScanChaptersFrom(s1, by_chapter, chapters, i + 1))

RECURSIVE ScanBooksFrom(_, _, _, _)
ScanBooksFrom(st, grouped, books, i) ==
    IF i > Len(books) THEN st
    ELSE Eager(ScanChaptersFrom(st, grouped[books[i]],
                                SortedChapters(DOMAIN grouped[books[i]]), 1),
               LAMBDA s1 : ScanBooksFrom(s1, grouped, books, i + 1))

_create_passage_chunks(grouped) ==
    Eager(ScanBooksFrom(ScanStart, grouped, SortedBooks(DOMAIN grouped), 1),
          LAMBDA s1 : IF s1.raised /= "none" THEN s1 ELSE CompletePassage(s1))

(***************************************************************************)
(* BibleChunker._create_sliding_window_chunks.  The result is the list of  *)
(* chunks and the exception raised, if any.                                *)
(***************************************************************************)
\* The window is one verse short.
WindowShort(vs, i, ws) == PySlice(vs, i, i + ws - 1)

\* window = verses[i:i + self.window_size]
Window(vs, i, ws) == PySlice(vs, i, i + ws)

\* Every non-empty window is emitted.
IsEmittedFromOne(window) == Len(window) >= 1

\* if len(window) >= 2
IsEmitted(window) == Len(window) >= MinChunkVerses

\* The body of the loop over the offsets, for one window.
WindowStep(res, window) ==
    IF ~IsEmitted(window) THEN res
    ELSE Eager(_create_chunk_from_verses(window), LAMBDA chunk :
             IF IsException(chunk)
             THEN [res EXCEPT !.raised = chunk.exception]
             ELSE [res EXCEPT !.chunks = Append(@, chunk)])

RECURSIVE WindowsFrom(_, _, _, _, _)
WindowsFrom(res, vs, ws, offsets, k) ==
    IF k > Len(offsets) \/ res.raised /= "none" THEN res
    ELSE Eager(WindowStep(res, Window(vs, offsets[k], ws)),
               LAMBDA r1 : WindowsFrom(r1, vs, ws, offsets, k + 1))

_create_sliding_window_chunks(vs, ws, step) ==
    IF step = 0 THEN [chunks |-> <<>>, raised |-> "ValueError"]
    ELSE Eager(PyRange(Len(vs), step), LAMBDA offsets :
             WindowsFrom([chunks |-> <<>>, raised |-> "none"], vs, ws,
                         offsets, 1))

(***************************************************************************)
(* BibleChunker.create_chunks: the loop over the passage chunks.           *)
(***************************************************************************)
\* A passage of exactly max_passage_size verses is split.
IsKeptStrict(chunk, max) == Len(chunk.verses) < max

\* if len(chunk['verses']) <= self.max_passage_size
IsKept(chunk, max) == Len(chunk.verses) <= max

\* A passage whose chunk_id is already in the result is left out.
FinalStepDeduplicated(res, chunk, ws, step, max) ==
    IF \E k \in 1..Len(res.chunks) : res.chunks[k].chunk_id = chunk.chunk_id
    THEN res
    ELSE IF IsKept(chunk, max) THEN [res EXCEPT !.chunks = Append(@, chunk)]
    ELSE Eager(_create_sliding_window_chunks(chunk.verses, ws, step),
               LAMBDA sliding_chunks :
                   [chunks |-> res.chunks \o sliding_chunks.chunks,
                    raised |-> sliding_chunks.raised])

\* The body of the loop over the passage chunks.
FinalStep(res, chunk, ws, step, max) ==
    IF IsKept(chunk, max) THEN [res EXCEPT !.chunks = Append(@, chunk)]
    ELSE Eager(_create_sliding_window_chunks(chunk.verses, ws, step),
               LAMBDA sliding_chunks :
                   [chunks |-> res.chunks \o sliding_chunks.chunks,
                    raised |-> sliding_chunks.raised])

RECURSIVE FinalFrom(_, _, _, _, _, _)
FinalFrom(res, passages, ws, step, max, k) ==
    IF k > Len(passages) \/ res.raised /= "none" THEN res
    ELSE Eager(FinalStep(res, passages[k], ws, step, max),
               LAMBDA r1 : FinalFrom(r1, passages, ws, step, max, k + 1))

\* The result of create_chunks on an engine: the passage chunks, the final
\* chunks and the exception raised, if any.
RunCreateChunks(grouped, ws, step, max) ==
    Eager(_create_passage_chunks(grouped), LAMBDA seg :
        IF seg.raised /= "none"
        THEN [passage_chunks |-> <<>>, final_chunks |-> <<>>,
              raised |-> seg.raised]
        ELSE Eager(FinalFrom([chunks |-> <<>>, raised |-> "none"],
                             seg.passage_chunks, ws, step, max, 1),
                   LAMBDA fin :
                       IF fin.raised /= "none"
                       THEN [passage_chunks |-> seg.passage_chunks,
                             final_chunks |-> <<>>, raised |-> fin.raised]
                       ELSE [passage_chunks |-> seg.passage_chunks,
                             final_chunks |-> fin.chunks, raised |-> "none"]))

(***************************************************************************)
(* BibleChunker.__init__: the step size.                                   *)
(***************************************************************************)
\* The step without the lower bound of 1.
StepSizeUnclamped(ws, overlap) ==
    IntTrunc(ws * (overlap[2] - overlap[1]), overlap[2])

\* max(1, int(window_size * (1 - overlap_percentage)))
StepSize(ws, overlap) ==
    Max(1, IntTrunc(ws * (overlap[2] - overlap[1]), overlap[2]))

(***************************************************************************)
(* Inputs.  The records of an input carry their position as identity.      *)
(***************************************************************************)
Books == {"Genesis", "Exodus"}

PlainText == "And God said"

BreakText == "Then Jacob went on his journey"

Texts ==
    { "", PlainText, BreakText, "The", "then he said", " Then he said",
      "Behold, I come quickly", "And it came to pass, when men began",
      "And it came to", "Now it came to pass", "After these things",
      "Verily, verily", "Verily, I say unto you",
      "Thus saith the Lord", "Thus saith the LORD" }

\* Sequences of at most n elements of S.
SeqsUpTo(S, n) == UNION {[1..k -> S] : k \in 0..n}

\* Any books, chapters and verse numbers in any order, duplicates included;
\* a verse number is 1, which the boundary rule singles out, or 2.
Chapters == {1, 2}

GridKeys == Books \X Chapters \X {1, 2}

GridInputs ==
    { [i \in 1..Len(ks) |-> Verse(i, ks[i][1], ks[i][2], ks[i][3], PlainText)]
        : ks \in SeqsUpTo(GridKeys, MaxLen) }

\* One chapter, verses 1, 2, ... with any texts.
TextInputs ==
    { [i \in 1..Len(ts) |-> Verse(i, "Genesis", 1, i, ts[i])]
        : ts \in SeqsUpTo(Texts, MaxTextLen) }

\* One chapter, verses 1..n; verse k, if any, opens with a boundary phrase.
Run(n, k) ==
    [i \in 1..n |->
        Verse(i, "Genesis", 1, i, IF i = k THEN BreakText ELSE PlainText)]

RunInputs == {Run(n, k) : n \in 0..MaxRun, k \in 0..MaxRun}

\* The sample of scripts/test_sample.py, as the parser returns it.
sample_text ==
    << "In the beginning God created the heaven and the earth.",
       "And the earth was without form, and void; and darkness [was] upon the face of the deep. And the Spirit of God moved upon the face of the waters.",
       "And God said, Let there be light: and there was light.",
       "And God saw the light, that [it was] good: and God divided the light from the darkness.",
       "And God called the light Day, and the darkness he called Night. And the evening and the morning were the first day.",
       "And God said, Let there be a firmament in the midst of the waters, and let it divide the waters from the waters.",
       "And God made the firmament, and divided the waters which [were] under the firmament from the waters which [were] above the firmament: and it was so.",
       "And God called the firmament Heaven. And the evening and the morning were the second day.",
       "And God said, Let the waters under the heaven be gathered together unto one place, and let the dry [land] appear: and it was so.",
       "And God called the dry [land] Earth; and the gathering together of the waters called he Seas: and God saw that [it was] good." >>

GenesisSample ==
    [i \in 1..Len(sample_text) |-> Verse(i, "Genesis", 1, i, sample_text[i])]

(***************************************************************************)
(* Configurations <<window_size, overlap_percentage, max_passage_size>>.   *)
(***************************************************************************)
Overlaps == {<<-1, 2>>, <<0, 1>>, <<1, 4>>, <<1, 2>>, <<1, 1>>, <<3, 2>>}

DefaultConfig == <<DefaultWindowSize, DefaultOverlap, DefaultMaxPassageSize>>

SampleConfig == <<SampleWindowSize, SampleOverlap, SampleMaxPassageSize>>

\* Windows of two verses without overlap, passages of one verse.
TightConfig == <<MinChunkVerses, <<0, 1>>, 1>>

Configs == (-1..MaxWindow) \X Overlaps \X (0..MaxPassageSize)

(***************************************************************************)
(* State.                                                                  *)
(*   pc        "new": the caller holds the arguments; "ready": the engine  *)
(*             is constructed; "done": create_chunks has returned;         *)
(*             "failed": create_chunks has raised                          *)
(*   verses, window_size, overlap_percentage, max_passage_size             *)
(*             the arguments, then the attributes of the engine            *)
(*   step_size, verses_by_book_chapter                                     *)
(*             the attributes __init__ derives (0 and the empty dict       *)
(*             before construction)                                        *)
(*   passage_chunks, final_chunks                                          *)
(*             the passages and the list returned by the last call         *)
(*   raised    the exception raised by the last call, or "none"            *)
(*   given, created                                                        *)
(*             the argument and the result of the last direct call of      *)
(*             _create_chunk_from_verses on the engine (<<>> before it)    *)
(*   calls     the number of calls of create_chunks made on the engine     *)
(*   offset, sliding_chunks, considered                                    *)
(*             in a direct call of _create_sliding_window_chunks: the loop *)
(*             variable i, the list built and the number of windows taken  *)
(***************************************************************************)
VARIABLES pc, verses, window_size, overlap_percentage, max_passage_size,
          step_size, verses_by_book_chapter, passage_chunks, final_chunks,
          raised, given, created, calls, offset, sliding_chunks, considered

(***************************************************************************)
(* The context annotator: a ContextGenerator and its call of               *)
(* generate_contexts.                                                      *)
(*   gen_pc    "unused": no generator; "constructed"; "batch": at the head *)
(*             of the loop over the batches; "chunk": at the head of the   *)
(*             loop over the chunks of a batch; "attempt": at the head of  *)
(*             the loop over the attempts of _call_llm_api; "retry": in    *)
(*             the handler of a failed attempt that is retried;            *)
(*             "returned": generate_contexts has returned; "raised": it    *)
(*             has raised                                                  *)
(*   gen_chunks, batch_size, max_retries, retry_delay                      *)
(*             the argument chunks and the attributes of the generator     *)
(*   batch_start, batch_pos, attempt                                       *)
(*             the loop variable i, the position in the batch and the      *)
(*             loop variable attempt                                       *)
(*   chunks_with_context                                                   *)
(*             the list that generate_contexts builds                      *)
(*   logs      for each chunk whose context was asked for, the requests    *)
(*             made and the waits of retry_delay, in order                 *)
(*   pauses    the number of pauses made between batches                   *)
(***************************************************************************)
VARIABLES gen_pc, gen_chunks, batch_size, max_retries, retry_delay,
          batch_start, batch_pos, attempt, chunks_with_context, logs, pauses

annotator == <<gen_pc, gen_chunks, batch_size, max_retries, retry_delay,
               batch_start, batch_pos, attempt, chunks_with_context, logs,
               pauses>>

vars == <<pc, verses, window_size, overlap_percentage, max_passage_size,
          step_size, verses_by_book_chapter, passage_chunks, final_chunks,
          raised, given, created, calls, offset, sliding_chunks, considered,
          annotator>>

engine == <<pc, verses, window_size, overlap_percentage, max_passage_size,
            step_size, verses_by_book_chapter, passage_chunks, final_chunks,
            raised, given, created, calls, offset, sliding_chunks,
            considered>>

args == <<verses, window_size, overlap_percentage, max_passage_size>>

\* What a direct call of a method of the engine leaves behind.
direct == <<given, created, offset, sliding_chunks, considered>>

\* A generator with the arguments given to its constructor.
ContextGenerator(chunks, size, retries, delay) ==
    /\ gen_chunks = chunks
    /\ batch_size = size
    /\ max_retries = retries
    /\ retry_delay = delay
    /\ batch_start = 0
    /\ batch_pos = 0
    /\ attempt = 0
    /\ chunks_with_context = <<>>
    /\ logs = <<>>
    /\ pauses = 0

\* No generator is in use.
AnnotatorUnused ==
    /\ gen_pc = "unused"
    /\ ContextGenerator(<<>>, DefaultBatchSize, DefaultMaxRetries,
                        DefaultRetryDelay)

InitWith(input, config) ==
    /\ pc = "new"
    /\ verses = input
    /\ window_size = config[1]
    /\ overlap_percentage = config[2]
    /\ max_passage_size = config[3]
    /\ step_size = 0
    /\ verses_by_book_chapter = EmptyDict
    /\ passage_chunks = <<>>
    /\ final_chunks = <<>>
    /\ raised = "none"
    /\ given = <<>>
    /\ created = <<>>
    /\ calls = 0
    /\ offset = 0
    /\ sliding_chunks = <<>>
    /\ considered = 0

Init ==
    /\ AnnotatorUnused
    /\ \/ \E input \in GridInputs \cup TextInputs :
              InitWith(input, TightConfig)
       \/ \E input \in RunInputs, config \in Configs :
              InitWith(input, config)
       \/ InitWith(Run(ExampleRun, 0), DefaultConfig)
       \/ \E config \in {SampleConfig, DefaultConfig} :
              InitWith(GenesisSample, config)

\* BibleChunker(verses, window_size, overlap_percentage, max_passage_size)
Construct ==
    /\ pc = "new"
    /\ step_size' = StepSize(window_size, overlap_percentage)
    /\ verses_by_book_chapter' = _group_verses_by_book_chapter(verses)
    /\ pc' = "ready"
    /\ UNCHANGED <<args, passage_chunks, final_chunks, raised, direct,
                   calls, annotator>>

\* The chunks of a call are added to the chunks of the calls before it.
ReturnsAccumulated(grouped, step) ==
    \E r \in {RunCreateChunks(grouped, window_size, step, max_passage_size)} :
        /\ raised' = r.raised
        /\ pc' = IF r.raised = "none" THEN "done" ELSE "failed"
        /\ passage_chunks' = r.passage_chunks
        /\ final_chunks' = final_chunks \o r.final_chunks

\* The effect of one call of create_chunks on a constructed engine.
Returns(grouped, step) ==
    \E r \in {RunCreateChunks(grouped, window_size, step, max_passage_size)} :
        /\ raised' = r.raised
        /\ pc' = IF r.raised = "none" THEN "done" ELSE "failed"
        /\ passage_chunks' = r.passage_chunks
        /\ final_chunks' = r.final_chunks

\* chunker.create_chunks(), any number of times on one engine.
CreateChunks ==
    /\ pc \in {"ready", "done"}
    /\ calls < MaxCalls
    /\ calls' = calls + 1
    /\ Returns(verses_by_book_chapter, step_size)
    /\ UNCHANGED <<args, step_size, verses_by_book_chapter, direct,
                   annotator>>

\* The module-level create_chunks(verses, ...): construct, then call.
create_chunks ==
    /\ pc = "new"
    /\ step_size' = StepSize(window_size, overlap_percentage)
    /\ \E grouped \in {_group_verses_by_book_chapter(verses)} :
           /\ verses_by_book_chapter' = grouped
           /\ Returns(grouped, step_size')
    /\ calls' = 1
    /\ UNCHANGED <<args, direct, annotator>>

Next == Construct \/ CreateChunks \/ create_chunks

Spec == Init /\ [][Next]_vars

(***************************************************************************)
(* Direct calls of _create_chunk_from_verses on a constructed engine, with *)
(* the verses of the engine in any order.                                  *)
(***************************************************************************)
Reverse(s) == [i \in 1..Len(s) |-> s[Len(s) + 1 - i]]

\* The orderings of the list s; a list of more than MaxShuffle records is
\* taken as it is and reversed.
Orderings(s) ==
    IF Len(s) <= MaxShuffle
    THEN {[i \in 1..Len(s) |-> s[p[i]]] : p \in Permutations(1..Len(s))}
    ELSE {s, Reverse(s)}

\* Records of one chapter with any texts: two records of one key can differ
\* in their text.
TieInputs ==
    { [i \in 1..Len(ks) |-> Verse(i, "Genesis", 1, ks[i][1], ks[i][2])]
        : ks \in SeqsUpTo({1, 2} \X {PlainText, ""}, MaxLen) }

\* Genesis 1:28 to Genesis 2:3.
SpanExample ==
    [i \in 1..7 |->
        IF i <= 4 THEN Verse(i, "Genesis", 1, 27 + i, PlainText)
        ELSE Verse(i, "Genesis", 2, i - 4, PlainText)]

\* The lists of records in ascending order of their keys: the call is made
\* with every ordering of each.
ConstructorInputs ==
    { vs \in GridInputs \cup TieInputs :
        \A i \in 1..(Len(vs) - 1) : ~TupleKeyLess(vs[i + 1], vs[i]) }
    \cup {Run(5, 0), SpanExample}

ConstructorInit ==
    /\ AnnotatorUnused
    /\ \E input \in ConstructorInputs : InitWith(input, DefaultConfig)

\* chunker._create_chunk_from_verses(vs), vs the verses in some order.
CreateChunkFromVerses ==
    /\ pc = "ready"
    /\ \E vs \in Orderings(verses) :
           \E c \in {_create_chunk_from_verses(vs)} :
               /\ given' = vs
               /\ created' = IF IsException(c) THEN <<>> ELSE c
               /\ raised' = IF IsException(c) THEN c.exception ELSE "none"
    /\ UNCHANGED <<pc, args, step_size, verses_by_book_chapter,
                   passage_chunks, final_chunks, calls, offset,
                   sliding_chunks, considered, annotator>>

ConstructorNext == Construct \/ CreateChunkFromVerses

ConstructorSpec == ConstructorInit /\ [][ConstructorNext]_vars

(***************************************************************************)
(* A direct call of _create_sliding_window_chunks on the verses of the     *)
(* engine, one iteration of its loop at a time.  A call in progress goes   *)
(* on: the actions are weakly fair.                                        *)
(***************************************************************************)
SplitterInit ==
    /\ AnnotatorUnused
    /\ \E n \in 0..MaxRun, config \in Configs : InitWith(Run(n, 0), config)

\* chunker._create_sliding_window_chunks(verses): up to the loop.
SplitStart ==
    /\ pc = "ready"
    /\ given' = verses
    /\ sliding_chunks' = <<>>
    /\ considered' = 0
    /\ offset' = 0
    /\ IF step_size = 0
       THEN pc' = "failed" /\ raised' = "ValueError"
       ELSE pc' = "window" /\ UNCHANGED raised
    /\ UNCHANGED <<args, step_size, verses_by_book_chapter, passage_chunks,
                   final_chunks, created, calls, annotator>>

\* One iteration of the loop: the window at the offset and, if it is
\* emitted, its chunk; then the next value of the range.
SplitIterate ==
    /\ pc = "window"
    /\ HasNext(offset, Len(given), step_size)
    /\ \E res \in {WindowStep([chunks |-> sliding_chunks, raised |-> "none"],
                              Window(given, offset, window_size))} :
           /\ sliding_chunks' = res.chunks
           /\ raised' = res.raised
           /\ pc' = IF res.raised = "none" THEN "window" ELSE "failed"
    /\ considered' = considered + 1
    /\ offset' = offset + step_size
    /\ UNCHANGED <<args, step_size, verses_by_book_chapter, passage_chunks,
                   final_chunks, given, created, calls, annotator>>

\* The range is exhausted: return sliding_chunks.
SplitReturn ==
    /\ pc = "window"
    /\ ~HasNext(offset, Len(given), step_size)
    /\ pc' = "split"
    /\ UNCHANGED <<args, step_size, verses_by_book_chapter, passage_chunks,
                   final_chunks, raised, direct, calls, annotator>>

SplitterNext == Construct \/ SplitStart \/ SplitIterate \/ SplitReturn

SplitterSpec ==
    SplitterInit /\ [][SplitterNext]_vars /\ WF_vars(SplitterNext)

(***************************************************************************)
(* ContextGenerator (context_gen.py).  The service answers each request in *)
(* one of three ways: with a JSON object whose 'response', if any, is a    *)
(* string ("ok"); with a failure that requests reports as a                *)
(* RequestException: no connection, an error status, a body that is not    *)
(* JSON ("error"); with JSON in which the code finds no string to strip,   *)
(* which raises AttributeError ("unreadable").                             *)
(***************************************************************************)
Whitespace == {" ", "\n", "\t"}

\* str.strip()
RECURSIVE LStrip(_)
LStrip(str) ==
    IF Len(str) > 0 /\ Char(str, 1) \in Whitespace
    THEN LStrip(SubSeq(str, 2, Len(str)))
    ELSE str

RECURSIVE RStrip(_)
RStrip(str) ==
    IF Len(str) > 0 /\ Char(str, Len(str)) \in Whitespace
    THEN RStrip(SubSeq(str, 1, Len(str) - 1))
    ELSE str

Strip(str) == RStrip(LStrip(str))

\* result.get('response', '')
GetResponse(result) ==
    IF "response" \in DOMAIN result THEN result.response ELSE ""

FallbackContext ==
    "Context generation failed. This passage is from the King James Bible."

\* The JSON objects the service answers with.
Results ==
    { [response |-> " A context.\n"], [response |-> ""],
      [model |-> "qwen3-14b-custom"] }

Outcomes ==
    {[kind |-> "ok", value |-> r] : r \in Results}
    \cup {[kind |-> "error", value |-> <<>>],
          [kind |-> "unreadable", value |-> <<>>]}

\* chunk_with_context = chunk.copy(); chunk_with_context['context'] = context
WithContext(c, context) ==
    [k \in DOMAIN c \cup {"context"} |->
        IF k = "context" THEN context ELSE c[k]]

\* The chunks given to generate_contexts: one chunk for each of n verses.
ChunksOfRun(n) == [k \in 1..n |-> ChunkOf(<<Run(n, 0)[k]>>)]

AnnotatorInit ==
    /\ InitWith(<<>>, DefaultConfig)
    /\ gen_pc = "constructed"
    /\ \E n \in 0..MaxChunks, size \in 1..MaxBatch, retries \in 0..MaxRetries :
           ContextGenerator(ChunksOfRun(n), size, retries, DefaultRetryDelay)

\* generator.generate_contexts(chunks): up to the loop over the batches.
GenerateContexts ==
    /\ gen_pc = "constructed"
    /\ gen_pc' = "batch"
    /\ batch_start' = 0
    /\ chunks_with_context' = <<>>
    /\ UNCHANGED <<engine, gen_chunks, batch_size, max_retries, retry_delay,
                   batch_pos, attempt, logs, pauses>>

\* for i in range(0, total_chunks, self.batch_size): the next batch, or
\* the return of generate_contexts.
NextBatch ==
    /\ gen_pc = "batch"
    /\ IF batch_start < Len(gen_chunks)
       THEN gen_pc' = "chunk" /\ batch_pos' = 0
       ELSE gen_pc' = "returned" /\ UNCHANGED batch_pos
    /\ UNCHANGED <<engine, gen_chunks, batch_size, max_retries, retry_delay,
                   batch_start, attempt, chunks_with_context, logs, pauses>>

\* batch = chunks[i:i + self.batch_size]
Batch == PySlice(gen_chunks, batch_start, batch_start + batch_size)

\* for chunk in batch: the call of _call_llm_api for the next chunk or,
\* after the last chunk of the batch, the pause before the next batch.
NextChunk ==
    /\ gen_pc = "chunk"
    /\ IF batch_pos < Len(Batch)
       THEN /\ gen_pc' = "attempt"
            /\ attempt' = 0
            /\ logs' = Append(logs, <<>>)
            /\ UNCHANGED <<batch_start, pauses>>
       ELSE /\ gen_pc' = "batch"
            /\ pauses' = IF batch_start + batch_size < Len(gen_chunks)
                         THEN pauses + BatchPause ELSE pauses
            /\ batch_start' = batch_start + batch_size
            /\ UNCHANGED <<attempt, logs>>
    /\ UNCHANGED <<engine, gen_chunks, batch_size, max_retries, retry_delay,
                   batch_pos, chunks_with_context>>

\* The log of the call in progress with one more entry.
Logged(entry) == [logs EXCEPT ![Len(logs)] = Append(@, entry)]

\* Every failed attempt is followed by a wait.
IsRetriedAlways(n, retries) == n < retries

\* if attempt < self.max_retries - 1
IsRetried(n, retries) == n < retries - 1

\* _call_llm_api returns context to _generate_context_for_chunk, which
\* returns the chunk with its context to generate_contexts.
ReturnContext(context) ==
    /\ chunks_with_context'
           = Append(chunks_with_context,
                    WithContext(Batch[batch_pos + 1], context))
    /\ batch_pos' = batch_pos + 1
    /\ gen_pc' = "chunk"

\* for attempt in range(self.max_retries): one request and what follows
\* it, or the return after the loop.
Request ==
    /\ gen_pc = "attempt"
    /\ IF attempt < max_retries
       THEN \E outcome \in Outcomes :
                /\ logs' = Logged(outcome)
                /\ IF outcome.kind = "ok"
                   THEN ReturnContext(Strip(GetResponse(outcome.value)))
                   ELSE IF outcome.kind = "unreadable"
                   THEN gen_pc' = "raised"
                        /\ UNCHANGED <<chunks_with_context, batch_pos>>
                   ELSE IF IsRetried(attempt, max_retries)
                   THEN gen_pc' = "retry"
                        /\ UNCHANGED <<chunks_with_context, batch_pos>>
                   ELSE ReturnContext(FallbackContext)
       ELSE ReturnContext(FallbackContext) /\ UNCHANGED logs
    /\ UNCHANGED <<engine, gen_chunks, batch_size, max_retries, retry_delay,
                   batch_start, attempt, pauses>>

\* time.sleep(self.retry_delay), then the next attempt.
Retry ==
    /\ gen_pc = "retry"
    /\ logs' = Logged([kind |-> "sleep", value |-> retry_delay])
    /\ attempt' = attempt + 1
    /\ gen_pc' = "attempt"
    /\ UNCHANGED <<engine, gen_chunks, batch_size, max_retries, retry_delay,
                   batch_start, batch_pos, chunks_with_context, pauses>>

AnnotatorNext ==
    GenerateContexts \/ NextBatch \/ NextChunk \/ Request \/ Retry

AnnotatorSpec == AnnotatorInit /\ [][AnnotatorNext]_vars

(***************************************************************************)
(* Properties.                                                             *)
(***************************************************************************)
RECURSIVE ConcatFrom(_, _)
ConcatFrom(seqs, k) ==
    IF k > Len(seqs) THEN <<>> ELSE seqs[k] \o ConcatFrom(seqs, k + 1)

\* The concatenation of the sequences of seqs.
Concat(seqs) == ConcatFrom(seqs, 1)

VersesOf(chunks) == [k \in 1..Len(chunks) |-> chunks[k].verses]

\* The verses of all passages, in output order.
PassageVerses == Concat(VersesOf(passage_chunks))

\* The verses in the order of the loops of _create_passage_chunks.
ScanOrder(grouped) ==
    LET books == SortedBooks(DOMAIN grouped)
        chapters(b) == SortedChapters(DOMAIN grouped[b])
    IN  Concat([i \in 1..Len(books) |->
            Concat([j \in 1..Len(chapters(books[i])) |->
                grouped[books[i]][chapters(books[i])[j]]])])

Occurrences(s, v) == Cardinality({j \in 1..Len(s) : s[j] = v})

Elements(s) == {s[j] : j \in 1..Len(s)}

SameKey(a, b) ==
    a.book = b.book /\ a.chapter = b.chapter /\ a.verse = b.verse

\* C1: the passages of _create_passage_chunks partition the input: the
\* multiset of the verses of all passages is the multiset of the input
\* verses, so no verse is left out and none is in two passages or twice in
\* one, also for the empty input and for inputs with duplicate keys.
C1_Partition ==
    pc = "done" =>
        \A pv \in {PassageVerses} :
            /\ Len(pv) = Len(verses)
            /\ \A v \in Elements(verses) \cup Elements(pv) :
                   Occurrences(pv, v) = Occurrences(verses, v)

\* A segmented input with two records of one key, in two passages.
C1_Witness ==
    /\ pc = "done"
    /\ Len(passage_chunks) >= 2
    /\ \E i, j \in 1..Len(verses) : i < j /\ SameKey(verses[i], verses[j])

\* The texts of the model that open with a boundary phrase.
BoundaryTexts ==
    { "Then Jacob went on his journey", "Behold, I come quickly",
      "And it came to pass, when men began", "Now it came to pass",
      "After these things", "Verily, verily", "Thus saith the Lord" }

\* The index of the passage that holds the verse v.
PassageOf(v) ==
    CHOOSE k \in 1..Len(passage_chunks) :
        v \in Elements(passage_chunks[k].verses)

\* C3: two verses scanned one after the other are in the same passage iff
\* the second has the book and the chapter of the first, its number is not
\* 1 and its text does not begin with a boundary phrase (a case-sensitive
\* prefix of the untrimmed text; the empty text begins with none); the
\* first verse scanned opens the first passage.
C3_BoundaryRule ==
    pc = "done" =>
        \A so \in {ScanOrder(verses_by_book_chapter)} :
            /\ Len(so) > 0 => passage_chunks[1].verses[1] = so[1]
            /\ \A i \in 1..(Len(so) - 1) :
                   (PassageOf(so[i]) = PassageOf(so[i + 1]))
                     <=> /\ so[i + 1].book = so[i].book
                         /\ so[i + 1].chapter = so[i].chapter
                         /\ so[i + 1].verse /= 1
                         /\ so[i + 1].text \notin BoundaryTexts

\* The first verse opens with a boundary phrase and opens the passage; the
\* second opens with the phrase "Then" in lower case and stays in it.
C3_Witness ==
    /\ pc = "done"
    /\ Len(verses) = 2
    /\ verses[1].text = "Then Jacob went on his journey"
    /\ verses[2].text = "then he said"
    /\ Len(passage_chunks) = 1

\* The rank of the book names in Python's order of str.
BookRank == [b \in Books |-> IF b = "Exodus" THEN 1 ELSE 2]

\* a is before b in the canonical order; the identity is the position in
\* the input.
CanonBefore(a, b) ==
    \/ BookRank[a.book] < BookRank[b.book]
    \/ /\ a.book = b.book
       /\ \/ a.chapter < b.chapter
          \/ /\ a.chapter = b.chapter
             /\ \/ a.verse < b.verse
                \/ a.verse = b.verse /\ a.id < b.id

\* C4: the verses of the passages, in output order, are the input verses
\* in canonical order: books by ascending name, chapters ascending, verses
\* by ascending number, equal numbers in input order, whatever the order of
\* the input.
C4_CanonicalOrder ==
    pc = "done" =>
        \A pv \in {PassageVerses} :
            /\ Elements(pv) = Elements(verses)
            /\ Len(pv) = Len(verses)
            /\ \A i \in 1..(Len(pv) - 1) : CanonBefore(pv[i], pv[i + 1])

\* An input that names Genesis before Exodus.
C4_Witness ==
    /\ pc = "done"
    /\ Len(verses) = 2
    /\ verses[1].book = "Genesis"
    /\ verses[2].book = "Exodus"
    /\ passage_chunks[1].verses[1] = verses[2]

\* C10: no call of create_chunks builds a chunk from zero verses: no
\* ValueError is raised and every passage and every chunk returned has at
\* least one verse, for every input and every configuration.
C10_NoEmptyChunk ==
    /\ raised = "none"
    /\ pc /= "failed"
    /\ \A k \in 1..Len(passage_chunks) : passage_chunks[k].verses /= <<>>
    /\ \A k \in 1..Len(final_chunks) : final_chunks[k].verses /= <<>>

\* A chapter change met with an empty buffer: the boundary fires and no
\* passage is completed.
C10_Witness ==
    /\ pc = "done"
    /\ Len(verses) = 2
    /\ verses[1].chapter /= verses[2].chapter
    /\ Len(passage_chunks) = 2

\* overlap_percentage is in [0, 1).
OverlapInRange(overlap) == 0 <= overlap[1] /\ overlap[1] < overlap[2]

\* The chunks the splitter emits for the verses vs under the engine's
\* configuration.
SplitOf(vs) == _create_sliding_window_chunks(vs, window_size, step_size).chunks

\* C2: every verse of a passage of more than max_passage_size verses is in
\* a chunk the splitter emits for it, the first verse of the passage in the
\* first chunk and the last verse in the last chunk, for window_size >= 1
\* and overlap_percentage in [0, 1) (stated here for max_passage_size >= 1
\* only).
C2_Coverage ==
    (/\ pc = "done"
     /\ window_size >= 1
     /\ max_passage_size >= 1
     /\ OverlapInRange(overlap_percentage))
    => \A k \in 1..Len(passage_chunks) :
           Len(passage_chunks[k].verses) > max_passage_size =>
               \A p \in {passage_chunks[k].verses}, sw \in {SplitOf(passage_chunks[k].verses)} :
                   /\ \A v \in Elements(p) :
                          /\ \E c \in 1..Len(sw) : v \in Elements(sw[c].verses)
                          /\ \E c \in 1..Len(final_chunks) :
                                 v \in Elements(final_chunks[c].verses)
                   /\ sw /= <<>>
                   /\ p[1] \in Elements(sw[1].verses)
                   /\ p[Len(p)] \in Elements(sw[Len(sw)].verses)

\* The window the claim describes at offset i: min(ws, L - i) verses.
ExpectedWindow(vs, i, ws) == SubSeq(vs, i + 1, i + Min(ws, Len(vs) - i))

\* The windows at the offsets 0, step, 2 * step, ... below L that have at
\* least 2 verses, in increasing offset order.
ExpectedSplit(vs, ws, step) ==
    SelectSeq([k \in 1..((Len(vs) + step - 1) \div step) |->
                  ExpectedWindow(vs, (k - 1) * step, ws)],
              LAMBDA w : Len(w) >= 2)

Contribution(chunk) ==
    IF Len(chunk.verses) <= max_passage_size THEN <<chunk>>
    ELSE SplitOf(chunk.verses)

\* C6: the list create_chunks returns is the concatenation, in passage
\* order, of one contribution per passage: the passage chunk itself,
\* unchanged, when it has at most max_passage_size verses, and the output of
\* the splitter for it, in place of it, when it has more.
C6_Orchestration ==
    pc = "done" =>
        final_chunks = Concat([k \in 1..Len(passage_chunks) |->
                                  Contribution(passage_chunks[k])])

\* A passage of exactly max_passage_size verses is kept beside a passage
\* that is split.
C6_Witness ==
    /\ pc = "done"
    /\ max_passage_size >= 1
    /\ \E k \in 1..Len(passage_chunks) :
           /\ Len(passage_chunks[k].verses) = max_passage_size
           /\ \E c \in 1..Len(final_chunks) :
                  final_chunks[c] = passage_chunks[k]
    /\ \E k \in 1..Len(passage_chunks) :
           /\ Len(passage_chunks[k].verses) > max_passage_size
           /\ SplitOf(passage_chunks[k].verses) /= <<>>

\* C7: an invalid configuration (window_size <= 0, max_passage_size <= 0 or
\* overlap_percentage outside [0, 1)) is rejected by the constructor: no
\* engine is constructed with it.
C7_InvalidConfigRejected ==
    (\/ window_size <= 0
     \/ max_passage_size <= 0
     \/ ~OverlapInRange(overlap_percentage))
    => pc \notin {"ready", "done"}

\* The state is the run of the sample of scripts/test_sample.py.
IsSampleRun ==
    /\ pc = "done"
    /\ verses = GenesisSample
    /\ window_size = 3
    /\ overlap_percentage = <<1, 2>>
    /\ max_passage_size = 5

\* C8 as claimed: on the sample, Genesis 1:1 is a passage of its own, and
\* every passage of more than 5 verses is split with step 1.
C8_FirstVerseIsolated ==
    IsSampleRun =>
        /\ passage_chunks[1].verses = <<GenesisSample[1]>>
        /\ step_size = 1

\* C8 as amended: on the sample, the ten verses are one passage, which
\* Genesis 1:1 opens; it has more than 5 verses and is split with step 1
\* into the windows at the offsets 0..8, the window at offset 9 having one
\* verse.
C8_SampleOnePassage ==
    IsSampleRun =>
        /\ Len(passage_chunks) = 1
        /\ passage_chunks[1].verses = GenesisSample
        /\ passage_chunks[1].reference = "Genesis 1:1-10"
        /\ step_size = 1
        /\ VersesOf(final_chunks)
               = [k \in 1..9 |-> SubSeq(GenesisSample, k, Min(k + 2, 10))]

C8_Witness == IsSampleRun /\ Len(final_chunks) = 9

\* C9: the step of a constructed engine is
\* max(1, floor(window_size * (1 - overlap_percentage))), before and after
\* create_chunks; it is at least 1, and at most window_size when
\* window_size >= 1 and overlap_percentage is in [0, 1); (7, 0.5) gives 3
\* and (3, 0.5) gives 1.
C9_StepSize ==
    pc /= "new" =>
        /\ step_size
               = Max(1, (window_size
                           * (overlap_percentage[2] - overlap_percentage[1]))
                        \div overlap_percentage[2])
        /\ step_size >= 1
        /\ (window_size >= 1 /\ OverlapInRange(overlap_percentage))
               => step_size <= window_size
        /\ (window_size = 7 /\ overlap_percentage = <<1, 2>>) => step_size = 3
        /\ (window_size = 3 /\ overlap_percentage = <<1, 2>>) => step_size = 1

\* create_chunks has returned on an engine of window 7 and overlap 0.5.
C9_Witness ==
    /\ pc = "done"
    /\ window_size = 7
    /\ overlap_percentage = <<1, 2>>
    /\ step_size = 3
    /\ final_chunks /= <<>>

\* C11: for every input, the empty one included, the grouped structure
\* holds each input record exactly once, in the list of its own book and
\* chapter, and holds nothing else; each chapter's list is in ascending
\* order of the verse number, and records of equal number are in their
\* input order.
C11_Grouping ==
    pc /= "new" =>
        \A g \in {verses_by_book_chapter} :
            /\ \A i \in 1..Len(verses) :
                   /\ verses[i].book \in DOMAIN g
                   /\ verses[i].chapter \in DOMAIN g[verses[i].book]
                   /\ Occurrences(g[verses[i].book][verses[i].chapter],
                                  verses[i]) = 1
            /\ \A b \in DOMAIN g : \A c \in DOMAIN g[b] :
                   \A l \in {g[b][c]} :
                       /\ \A j \in 1..Len(l) :
                              /\ l[j].book = b
                              /\ l[j].chapter = c
                              /\ l[j] \in Elements(verses)
                       /\ \A j \in 1..(Len(l) - 1) :
                              \/ l[j].verse < l[j + 1].verse
                              \/ /\ l[j].verse = l[j + 1].verse
                                 /\ l[j].id < l[j + 1].id
            /\ verses = <<>> => g = EmptyDict

\* Two records of one key are given before a record of a smaller verse
\* number of their chapter.
C11_Witness ==
    /\ pc = "ready"
    /\ Len(verses) = 3
    /\ SameKey(verses[1], verses[2])
    /\ verses[3].book = verses[1].book
    /\ verses[3].chapter = verses[1].chapter
    /\ verses[3].verse < verses[1].verse
    /\ verses_by_book_chapter[verses[1].book][verses[1].chapter]
           = <<verses[3], verses[1], verses[2]>>

\* A verse record and a chunk as values: dicts are equal when their items
\* are, whatever objects they are.
Value(v) ==
    [book |-> v.book, chapter |-> v.chapter, verse |-> v.verse,
     text |-> v.text, reference |-> v.reference]

ChunkValue(c) ==
    [c EXCEPT !.verses = [k \in 1..Len(c.verses) |-> Value(c.verses[k])]]

UniqueKeys(vs) == \A i, j \in 1..Len(vs) : SameKey(vs[i], vs[j]) => i = j

\* Records of one key are equal records.
EqualTies(vs) ==
    \A i, j \in 1..Len(vs) :
        SameKey(vs[i], vs[j]) => Value(vs[i]) = Value(vs[j])

Position(s, v) == CHOOSE i \in 1..Len(s) : s[i] = v

\* C12 as claimed: the chunks that _create_chunk_from_verses builds from
\* two orderings of the same non-empty collection of records are equal.
C12_AnyOrderSameChunk ==
    [][(created /= <<>> /\ created' /= <<>>)
           => ChunkValue(created') = ChunkValue(created)]_vars

\* C12 as amended: the chunks built from two orderings of the same records
\* have the same reference, chunk_id and metadata and the same records;
\* they are equal when the keys (book, chapter, verse) are pairwise distinct
\* or the records of one key are equal; records of one key are in the chunk
\* in the order in which they were given, so two such records that differ
\* in their text give chunks that differ in verses and text.
C12_SameChunkUpToTies ==
    [][(created /= <<>> /\ created' /= <<>>)
           => /\ created'.reference = created.reference
              /\ created'.chunk_id = created.chunk_id
              /\ created'.metadata = created.metadata
              /\ Elements(created'.verses) = Elements(created.verses)
              /\ Len(created'.verses) = Len(created.verses)
              /\ UniqueKeys(verses) => created' = created
              /\ EqualTies(verses)
                     => ChunkValue(created') = ChunkValue(created)
              /\ \A j \in 1..(Len(created'.verses) - 1) :
                     SameKey(created'.verses[j], created'.verses[j + 1])
                         => Position(given', created'.verses[j])
                                < Position(given', created'.verses[j + 1])]_vars

\* Three records of distinct keys given in descending order.
C12_Witness ==
    /\ created /= <<>>
    /\ Len(verses) >= 3
    /\ UniqueKeys(verses)
    /\ given = Reverse(verses)
    /\ created.verses = verses

\* The key of a record is the book b, the chapter c and the verse number n.
HasKey(v, b, c, n) == v.book = b /\ v.chapter = c /\ v.verse = n

\* C13: with first and last the first and the last of the verses of the
\* chunk, which are records of the least and the greatest key given, the
\* reference is "Book C:V1-V2" when they share book and chapter (V1 = V2
\* for a single verse), "Book C1:V1-C2:V2" when they share the book only,
\* and "<first.reference>-<last.reference>" when the books differ;
\* Genesis 1:1..1:5 gives "Genesis 1:1-5" and Genesis 1:28..2:3 gives
\* "Genesis 1:28-2:3".
C13_ReferenceForm ==
    created /= <<>> =>
        \A f \in {created.verses[1]},
           l \in {created.verses[Len(created.verses)]} :
            /\ \A v \in Elements(given) :
                   ~TupleKeyLess(v, f) /\ ~TupleKeyLess(l, v)
            /\ (f.book = l.book /\ f.chapter = l.chapter)
                   => created.reference
                          = f.book \o " " \o ToString(f.chapter) \o ":"
                              \o ToString(f.verse) \o "-" \o ToString(l.verse)
            /\ (f.book = l.book /\ f.chapter /= l.chapter)
                   => created.reference
                          = f.book \o " " \o ToString(f.chapter) \o ":"
                              \o ToString(f.verse) \o "-"
                              \o ToString(l.chapter) \o ":"
                              \o ToString(l.verse)
            /\ f.book /= l.book
                   => created.reference = f.reference \o "-" \o l.reference
            /\ verses = Run(5, 0) => created.reference = "Genesis 1:1-5"
            /\ verses = SpanExample => created.reference = "Genesis 1:28-2:3"
            /\ (Len(given) = 1 /\ HasKey(given[1], "Genesis", 1, 1))
                   => created.reference = "Genesis 1:1-1"
            /\ (HasKey(f, "Genesis", 1, 2) /\ HasKey(l, "Genesis", 2, 1))
                   => created.reference = "Genesis 1:2-2:1"
            /\ (HasKey(f, "Exodus", 2, 1) /\ HasKey(l, "Genesis", 1, 2))
                   => created.reference = "Exodus 2:1-Genesis 1:2"

\* The chunk of Genesis 1:28 to 2:3, built from the verses in descending
\* order.
C13_Witness ==
    /\ created /= <<>>
    /\ verses = SpanExample
    /\ given = Reverse(SpanExample)
    /\ created.reference = "Genesis 1:28-2:3"

\* id is the string ref with each letter in lower case and each space,
\* colon and hyphen replaced by an underscore.
IsIdOf(id, ref) ==
    /\ Len(id) = Len(ref)
    /\ \A i \in 1..Len(ref) :
           \A c \in {Char(ref, i)} :
               Char(id, i) = IF c \in {" ", ":", "-"} THEN "_"
                             ELSE IF c \in DOMAIN LowerMap THEN LowerMap[c]
                             ELSE c

\* The two chunks have first verses of one key and last verses of one key.
SameSpan(a, b) ==
    /\ SameKey(a.verses[1], b.verses[1])
    /\ SameKey(a.verses[Len(a.verses)], b.verses[Len(b.verses)])

\* C14: the chunk_id of every chunk is its reference in lower case with
\* each space, colon and hyphen replaced by an underscore, so two chunks
\* whose first verses share a key and whose last verses share a key have
\* one chunk_id; create_chunks removes and renames no chunk for that: the
\* list it returns has one chunk per kept passage and per emitted window,
\* chunks of equal chunk_id included.
C14_ChunkIdNoDedup ==
    pc = "done" =>
        \A all \in {passage_chunks \o final_chunks} :
            /\ \A k \in 1..Len(all) :
                   IsIdOf(all[k].chunk_id, all[k].reference)
            /\ \A j, k \in 1..Len(all) :
                   SameSpan(all[j], all[k])
                       => all[j].chunk_id = all[k].chunk_id
            /\ \A expected \in {Concat([k \in 1..Len(passage_chunks) |->
                                           Contribution(passage_chunks[k])])} :
                   /\ Len(final_chunks) = Len(expected)
                   /\ \A k \in 1..Len(expected) :
                          final_chunks[k].chunk_id = expected[k].chunk_id

\* Two chunks of one chunk_id are returned.
C14_Witness ==
    /\ pc = "done"
    /\ \E j, k \in 1..Len(final_chunks) :
           /\ j < k
           /\ final_chunks[j].chunk_id = final_chunks[k].chunk_id
           /\ final_chunks[j].chunk_id = "genesis_1_1_1"

\* The requests of a log: its entries other than waits.
Posts(log) == SelectSeq(log, LAMBDA e : e.kind /= "sleep")

Waits(log) == SelectSeq(log, LAMBDA e : e.kind = "sleep")

\* C15: whatever the service answers, _call_llm_api makes at most
\* max_retries requests for a chunk and none after a request that
\* succeeded, whose stripped response it returns; it waits retry_delay
\* after a failed request exactly when another request follows, so not
\* after the last; when max_retries requests have failed with a request
\* error, or max_retries is 0, it returns the fallback string, and no
\* request error is raised; generate_contexts then returns, for each chunk
\* given, in order, that chunk with a context.
C15_RetryAndFallback ==
    /\ \A k \in 1..Len(logs) :
           \A log \in {logs[k]} :
               /\ Len(Posts(log)) <= max_retries
               /\ \A n \in 1..Len(log) :
                      /\ log[n].kind = "sleep"
                             => /\ n > 1
                                /\ log[n - 1].kind = "error"
                                /\ log[n].value = retry_delay
                      /\ n < Len(log)
                             => /\ log[n].kind \in {"error", "sleep"}
                                /\ log[n].kind = "error"
                                       => log[n + 1].kind = "sleep"
                                /\ log[n].kind = "sleep"
                                       => log[n + 1].kind /= "sleep"
               /\ k <= Len(chunks_with_context)
                      => \A c \in {chunks_with_context[k]} :
                             /\ \A f \in DOMAIN gen_chunks[k] :
                                    c[f] = gen_chunks[k][f]
                             /\ DOMAIN c = DOMAIN gen_chunks[k] \cup {"context"}
                             /\ IF log /= <<>> /\ log[Len(log)].kind = "ok"
                                THEN c.context
                                       = IF log[Len(log)].value
                                              = [response |-> " A context.\n"]
                                         THEN "A context." ELSE ""
                                ELSE /\ \A n \in 1..Len(log) :
                                            log[n].kind \in {"error", "sleep"}
                                     /\ Len(Posts(log)) = max_retries
                                     /\ Len(Waits(log)) = Max(0, max_retries - 1)
                                     /\ log /= <<>>
                                            => log[Len(log)].kind = "error"
                                     /\ c.context
                                            = "Context generation failed. This passage is from the King James Bible."
    /\ Len(chunks_with_context) <= Len(logs)
    /\ gen_pc = "returned"
           => /\ Len(chunks_with_context) = Len(gen_chunks)
              /\ Len(logs) = Len(gen_chunks)
    /\ gen_pc = "raised"
           => \A log \in {logs[Len(logs)]} :
                  log[Len(log)].kind = "unreadable"

\* generate_contexts has returned; for one chunk three requests failed, with
\* two waits between them, and for another the second request succeeded.
C15_Witness ==
    /\ gen_pc = "returned"
    /\ max_retries = 3
    /\ Len(gen_chunks) = 2
    /\ [n \in 1..Len(logs[1]) |-> logs[1][n].kind]
           = <<"error", "sleep", "error", "sleep", "error">>
    /\ chunks_with_context[1].context = FallbackContext
    /\ [n \in 1..Len(logs[2]) |-> logs[2][n].kind] = <<"error", "sleep", "ok">>
    /\ chunks_with_context[2].context = "A context."

\* What create_chunks returns on a fresh engine with the arguments of the
\* engine.
FreshChunks ==
    RunCreateChunks(_group_verses_by_book_chapter(verses), window_size,
                    StepSize(window_size, overlap_percentage),
                    max_passage_size).final_chunks

Colons(str) == Cardinality({n \in 1..Len(str) : Char(str, n) = ":"})

\* C17: the verses of every passage, and of every chunk that create_chunks
\* returns, are of one book and one chapter, and the metadata says so
\* (start_chapter = end_chapter); the reference is then of the form
\* "Book C:V1-V2": no reference names two chapters or two books.
C17_OneChapterPerChunk ==
    pc = "done" =>
        \A all \in {passage_chunks \o final_chunks} :
            \A k \in 1..Len(all) :
                \A c \in {all[k]} :
                    /\ \A n \in 1..Len(c.verses) :
                           /\ c.verses[n].book = c.verses[1].book
                           /\ c.verses[n].chapter = c.verses[1].chapter
                    /\ c.metadata.book = c.verses[1].book
                    /\ c.metadata.start_chapter = c.verses[1].chapter
                    /\ c.metadata.end_chapter = c.metadata.start_chapter
                    /\ Colons(c.reference) = 1
                    /\ c.reference
                           = c.metadata.book \o " "
                               \o ToString(c.metadata.start_chapter) \o ":"
                               \o ToString(c.metadata.start_verse) \o "-"
                               \o ToString(c.metadata.end_verse)

\* Genesis 1:1 and Genesis 2:2: the second verse is not a verse 1 and
\* opens with no boundary phrase, and is in a passage of its own.
C17_Witness ==
    /\ pc = "done"
    /\ Len(verses) = 2
    /\ HasKey(verses[1], "Genesis", 1, 1)
    /\ HasKey(verses[2], "Genesis", 2, 2)
    /\ [k \in 1..Len(passage_chunks) |-> passage_chunks[k].reference]
           = <<"Genesis 1:1-1", "Genesis 2:2-2">>

\* C18: a call of the splitter returns, for every configuration, those
\* with overlap_percentage >= 1 and window_size <= 0 included: the step is
\* at least 1, each iteration takes one window at an offset below the
\* length L of the passage and moves the offset up by the step, so at most
\* ceil(L / step) windows are taken and none at an offset of L or more; the
\* list returned is that of _create_sliding_window_chunks.
C18_SplitterTerminates ==
    /\ (pc = "ready") ~> (pc = "split")
    /\ [](pc \in {"window", "split"}
              => /\ step_size >= 1
                 /\ considered
                        <= (Len(given) + step_size - 1) \div step_size
                 /\ offset = considered * step_size
                 /\ Len(sliding_chunks) <= considered)
    /\ [][considered' > considered
              => /\ offset < Len(given)
                 /\ offset' > offset
                 /\ offset' = offset + step_size
                 /\ considered' = considered + 1]_vars
    /\ [](pc = "split"
              => /\ offset >= Len(given)
                 /\ considered
                        = (Len(given) + step_size - 1) \div step_size
                 /\ sliding_chunks
                        = _create_sliding_window_chunks(given, window_size,
                                                        step_size).chunks)

\* The splitter has returned on an engine with a window_size of 0 and an
\* overlap_percentage of 1.5, after one iteration for each verse.
C18_Witness ==
    /\ pc = "split"
    /\ window_size = 0
    /\ overlap_percentage = <<3, 2>>
    /\ Len(given) >= 3
    /\ considered = Len(given)
    /\ sliding_chunks = <<>>

\* The bounds on the sizes of the chunks of a run.
SizeBounds ==
    /\ \A k \in 1..Len(final_chunks) :
           \A c \in {final_chunks[k]} :
               /\ c.metadata.verse_count = Len(c.verses)
               /\ Len(c.verses) <= Max(max_passage_size, window_size)
               /\ Len(c.verses) = 1
                      => \E j \in 1..Len(passage_chunks) :
                             /\ passage_chunks[j] = c
                             /\ Len(c.verses) <= max_passage_size
    /\ \A j \in 1..Len(passage_chunks) :
           Len(passage_chunks[j].verses) > max_passage_size
               => \A sw \in {SplitOf(passage_chunks[j].verses)} :
                      \A k \in 1..Len(sw) :
                          /\ Len(sw[k].verses) >= 2
                          /\ Len(sw[k].verses) <= window_size

\* C19: every chunk that create_chunks returns has a verse_count equal to
\* the number of its verses, which is at most
\* max(max_passage_size, window_size); every chunk from the split of a
\* passage of more than max_passage_size verses has between 2 and
\* window_size verses, so a chunk of one verse is a passage that was not
\* split.
C19_SizeBounds == pc = "done" => SizeBounds

\* The bounds hold on the engines with a window_size of at least 1.
SizeBoundsForValidWindow == (pc = "done" /\ window_size >= 1) => SizeBounds

\* With window_size > max_passage_size a chunk of a split exceeds
\* max_passage_size.
SplitChunkExceedsPassageSize ==
    /\ pc = "done"
    /\ window_size > max_passage_size
    /\ max_passage_size >= 1
    /\ \E k \in 1..Len(final_chunks) :
           Len(final_chunks[k].verses) > max_passage_size

\* C20: when no two input records share (book, chapter, verse), the
\* chunk_ids of the list that create_chunks returns are pairwise distinct,
\* for every configuration (the book names of the model have no digit and
\* stay distinct in lower case).
C20_DistinctChunkIds ==
    (pc = "done" /\ UniqueKeys(verses))
        => \A j, k \in 1..Len(final_chunks) :
               final_chunks[j].chunk_id = final_chunks[k].chunk_id => j = k

\* Records of distinct keys, split into windows that overlap and of which
\* two end at the same verse.
C20_Witness ==
    /\ pc = "done"
    /\ UniqueKeys(verses)
    /\ Len(final_chunks) >= 3
    /\ Len(final_chunks[1].verses) >= 2
    /\ final_chunks[1].verses[2] = final_chunks[2].verses[1]
    /\ \E j, k \in 1..Len(final_chunks) :
           /\ j < k
           /\ final_chunks[j].metadata.end_verse
                  = final_chunks[k].metadata.end_verse

\* The orders in which the records of s are given again: reversed, and
\* for a list of at most MaxLen records also with the first two or the
\* last two records exchanged and with the first record moved to the end
\* or the last to the front.  These are all the other orders of three
\* records, and every order of a list is reached by repeating them.
Reorderings(s) ==
    IF Len(s) < 2 THEN {s}
    ELSE IF Len(s) > MaxLen THEN {Reverse(s)}
    ELSE {Reverse(s),
          <<s[2], s[1]>> \o SubSeq(s, 3, Len(s)),
          SubSeq(s, 1, Len(s) - 2) \o <<s[Len(s)], s[Len(s) - 1]>>,
          Append(Tail(s), s[1]),
          <<s[Len(s)]>> \o SubSeq(s, 1, Len(s) - 1)}

\* What create_chunks(vs, window_size, overlap_percentage,
\* max_passage_size) returns or raises with the configuration of the engine.
ChunksOf(vs) ==
    Eager(RunCreateChunks(_group_verses_by_book_chapter(vs), window_size,
                          StepSize(window_size, overlap_percentage),
                          max_passage_size),
          LAMBDA r : [final_chunks |-> r.final_chunks, raised |-> r.raised])

\* C21: when no two input records share (book, chapter, verse), the list
\* that create_chunks has returned for the verses in the order given is the
\* list it returns for the same records in any other order, with the same
\* configuration: the same chunks in the same order, each with the same
\* records in the same order.
C21_InputOrderIndependence ==
    (pc \in {"done", "failed"} /\ calls = 1 /\ UniqueKeys(verses))
        => \A vs \in Reorderings(verses) :
               ChunksOf(vs) = [final_chunks |-> final_chunks, raised |-> raised]

\* Three records of two books given against the canonical order: the
\* chunk of the second book given comes first, and the passage of the
\* first two records, given with verse 2 before verse 1, was split.
C21_Witness ==
    /\ pc = "done"
    /\ calls = 1
    /\ UniqueKeys(verses)
    /\ Len(verses) = 3
    /\ verses[1].reference = "Genesis 1:2"
    /\ verses[2].reference = "Genesis 1:1"
    /\ verses[3].reference = "Exodus 1:1"
    /\ Len(final_chunks) = 2
    /\ final_chunks[1].verses = <<verses[3]>>
    /\ final_chunks[2].verses = <<verses[2], verses[1]>>
    /\ Len(passage_chunks[2].verses) > max_passage_size

====
